---- MODULE Spec2Model ----
(***************************************************************************)
(* A model of EnhancerGenerator                                            *)
(* (packages/schema/src/plugins/enhancer/enhance/index.ts): the run of     *)
(* generate() and the rewriting of the generated client's declarations     *)
(* for delegate (polymorphic) models.                                      *)
(*                                                                         *)
(* Text.  A name or a piece of source text is a sequence of words: each    *)
(* word is a string that the code never looks inside of ("Asset",          *)
(* "Create", "Input", ": string", "{").  A model named MyVideo is          *)
(* <<"My", "Video">>, so that "the name contains Video" is something a     *)
(* regular expression of the code can find.  JavaScript's                  *)
(* String.replace(text, '') and the regular expressions are modelled on    *)
(* these sequences the way the engine runs them on characters: leftmost    *)
(* match, alternatives in order, greedy groups.                            *)
(***************************************************************************)
EXTENDS Integers, Sequences, FiniteSets, TLC

\* ------------------------------------------------------------------ text

NL == "\n"
OPEN == "{"
NOPEN == ": {"
CLOSE == "}"

\* what may follow a property's name: its type annotation
PropTails == {": string", "?: string", ": X", "?: X"}

\* what may follow a method's name: its signature
MethodTails == {"(): R"}

\* the words that are no part of an identifier
Punct ==
    {NL, OPEN, NOPEN, CLOSE, "$", "(", " | ", "<ExtArgs>", " & { scalars: { ", ": '", "' } })"}
        \cup PropTails \cup MethodTails

IsFrag(w) == w \notin Punct

Min(S) == CHOOSE x \in S : \A y \in S : x <= y

Max(S) == CHOOSE x \in S : \A y \in S : x >= y

RECURSIVE Flatten(_)
Flatten(ss) == IF ss = <<>> THEN <<>> ELSE Head(ss) \o Flatten(Tail(ss))

\* the elements of a set of integers in increasing order
RECURSIVE SortedSeq(_)
SortedSeq(S) == IF S = {} THEN <<>> ELSE <<Min(S)>> \o SortedSeq(S \ {Min(S)})

\* s.startsWith(prefix)
StartsWith(s, prefix) ==
    /\ Len(s) >= Len(prefix)
    /\ SubSeq(s, 1, Len(prefix)) = prefix

\* String.indexOf(text, i): the first place from i on where text occurs in
\* source, 0 when it does not
RECURSIVE IndexFrom(_, _, _)
IndexFrom(source, text, i) ==
    IF i + Len(text) - 1 > Len(source) THEN 0
    ELSE IF SubSeq(source, i, i + Len(text) - 1) = text THEN i
    ELSE IndexFrom(source, text, i + 1)

IndexOf(source, text) == IndexFrom(source, text, 1)

\* source.replace(text, ''): the FIRST occurrence of text is cut out
Replace(source, text) ==
    LET i == IndexOf(source, text)
    IN IF i = 0 THEN source
       ELSE SubSeq(source, 1, i - 1) \o SubSeq(source, i + Len(text), Len(source))

\* ---------------------------------------------- the declaration tree (ts-morph)

\* the brace that closes the one before index j, open counting the braces
\* still open (the end of the text if none does)
RECURSIVE MatchClose(_, _, _)
MatchClose(text, j, open) ==
    IF j >= Len(text) THEN Len(text)
    ELSE IF text[j] = CLOSE THEN (IF open = 1 THEN j ELSE MatchClose(text, j + 1, open - 1))
    ELSE IF text[j] \in {OPEN, NOPEN} THEN MatchClose(text, j + 1, open + 1)
    ELSE MatchClose(text, j + 1, open)

\* the last word of the identifier that starts at i
RECURSIVE NameEnd(_, _)
NameEnd(text, i) ==
    IF i < Len(text) /\ IsFrag(text[i + 1]) THEN NameEnd(text, i + 1) ELSE i

\* the parsed member (property or method signature) that starts at i at the
\* given depth of type literals: its name, kind, text (getText()) and depth
MemberAt(text, i, depth) ==
    LET e == NameEnd(text, i)
        last == IF e < Len(text) /\ text[e+1] \in (PropTails \cup MethodTails) THEN e + 1
                ELSE IF e < Len(text) /\ text[e+1] = NOPEN THEN MatchClose(text, e + 2, 1)
                ELSE e
    IN [name |-> SubSeq(text, i, e),
        kind |-> IF e < Len(text) /\ text[e+1] \in MethodTails
                 THEN "MethodSignature" ELSE "PropertySignature",
        text |-> SubSeq(text, i, last),
        depth |-> depth]

\* the members from index i on, in document order: a member starts where an
\* identifier starts
RECURSIVE MembersFrom(_, _, _)
MembersFrom(text, i, depth) ==
    IF i > Len(text) THEN <<>>
    ELSE IF text[i] \in {OPEN, NOPEN} THEN MembersFrom(text, i + 1, depth + 1)
    ELSE IF text[i] = CLOSE THEN MembersFrom(text, i + 1, depth - 1)
    ELSE IF ~IsFrag(text[i]) THEN MembersFrom(text, i + 1, depth)
    ELSE <<MemberAt(text, i, depth)>> \o MembersFrom(text, NameEnd(text, i) + 1, depth)

\* node.getDescendants(), members only, in document order
Members(text) == MembersFrom(text, 1, 0)

\* node.getDescendantsOfKind(SyntaxKind.PropertySignature)
PropertySignatures(text) ==
    SelectSeq(Members(text), LAMBDA m : m.kind = "PropertySignature")

\* the names of the members of a text, at any depth
MemberNames(text) == {Members(text)[k].name : k \in 1..Len(Members(text))}

\* ------------------------------------------------- the schema (this.model)
\* A data model: its name, its @@delegate attribute ("none": absent; "field":
\* the argument resolves to the field named disc; "unresolved": the argument is
\* no reference or resolves to nothing), the names its superTypes refer to, and
\* its fields (each with its @relation attribute: "none", or the names listed
\* in the attribute's `fields` argument; and whether a @default uses auth()).
\* this.model.declarations holds data models only; a reference `x.ref === dm`
\* is the equality of names, which are unique in a schema.

DELEGATE_AUX_RELATION_PREFIX == <<"delegate_aux">>

\* upper-case-first, on the words the model uses
upperCaseFirst(name) ==
    IF name = <<>> THEN name
    ELSE <<CASE name[1] = "delegate_aux" -> "Delegate_aux"
             [] name[1] = "owner" -> "Owner"
             [] name[1] = "kind" -> "Kind"
             [] name[1] = "my" -> "My"
             [] OTHER -> name[1]>> \o Tail(name)

isDataModel(d) == d.isDataModel

isDelegateModel(d) == isDataModel(d) /\ d.delegate # "none"

getDataModels(m) == SelectSeq(m.declarations, isDataModel)

Some(seq, P(_)) == \E i \in 1..Len(seq) : P(seq[i])

\* Array.prototype.find: the first element that satisfies P, as a sequence of
\* length 1, or <<>> (undefined)
Find(seq, P(_)) ==
    LET hits == SelectSeq(seq, P) IN IF hits = <<>> THEN <<>> ELSE <<Head(hits)>>

hasDelegateModel(m) ==
    LET dataModels == getDataModels(m)
    IN Some(dataModels, LAMBDA dm :
           /\ isDelegateModel(dm)
           /\ Some(dataModels, LAMBDA sub : Some(sub.superTypes, LAMBDA base : base = dm.name)))

hasAuthInDefault(m) ==
    Some(getDataModels(m), LAMBDA dm : Some(dm.fields, LAMBDA f : f.defaultWithAuth))

\* a variant that asks for the logical client for delegate hierarchies only:
\* C11 must tell it from needsLogicalClient
needsLogicalClientForDelegates(m) == hasDelegateModel(m)

needsLogicalClient(m) == hasDelegateModel(m) \/ hasAuthInDefault(m)

\* a variant that lists under every delegate each model that extends anything:
\* C3 must tell it from BuildDelegateInfo
BuildDelegateInfoAnySubtype(m) ==
    LET delegates == SelectSeq(m.declarations, isDelegateModel)
    IN [i \in 1..Len(delegates) |->
           [delegate |-> delegates[i],
            concretes |-> SelectSeq(m.declarations, LAMBDA d :
                isDataModel(d) /\ d.superTypes # <<>>)]]

\* processClientTypes: the map of delegate models and their sub models
BuildDelegateInfo(m) ==
    LET delegates == SelectSeq(m.declarations, isDelegateModel)
    IN [i \in 1..Len(delegates) |->
           [delegate |-> delegates[i],
            concretes |-> SelectSeq(m.declarations, LAMBDA d :
                /\ isDataModel(d)
                /\ Some(d.superTypes, LAMBDA s : s = delegates[i].name))]]

\* the discriminator field's name as a sequence of length 1, or <<>> (undefined)
getDiscriminatorField(delegate) ==
    IF delegate.delegate = "field" THEN <<delegate.disc>> ELSE <<>>

\* superType.ref: the declaration a supertype reference resolves to
Ref(m, s) == Find(m.declarations, LAMBDA d : d.name = s)

\* the deepest chain of calls the runtime's stack holds
MaxCallDepth == 6

\* what a walk that overruns the stack yields instead of a list of field names,
\* and what a rewrite that runs such a walk yields instead of a text
StackOverflow == <<(<<"RangeError: Maximum call stack size exceeded">>)>>

Thrown == <<"RangeError: Maximum call stack size exceeded">>

\* getDiscriminatorFieldsRecursively(delegate, result): the one array `result`
\* is shared by all calls and returned by each, so every return of a recursive
\* call appends the array to itself.  depth counts the calls on the stack.
RECURSIVE getDiscriminatorFieldsRecursively(_, _, _, _)
RECURSIVE WalkSuperTypes(_, _, _, _)
WalkSuperTypes(m, supers, result, depth) ==
    IF supers = <<>> \/ result = StackOverflow THEN result
    ELSE LET ref == Ref(m, Head(supers))
             got == IF ref = <<>> THEN result
                    ELSE LET r == getDiscriminatorFieldsRecursively(m, ref[1], result, depth + 1)
                         IN IF r = StackOverflow THEN r ELSE r \o r
         IN WalkSuperTypes(m, Tail(supers), got, depth)

getDiscriminatorFieldsRecursively(m, delegate, result, depth) ==
    IF depth > MaxCallDepth THEN StackOverflow
    ELSE IF isDelegateModel(delegate)
         THEN WalkSuperTypes(m, delegate.superTypes,
                             result \o getDiscriminatorField(delegate), depth)
         ELSE result

\* ------------------------------------------- the rewrites of a type alias
\* typeAlias is the declaration as the input document has it: its name, its
\* type and the property signatures under it (the nodes the rewrites look up);
\* source is the text the rewrites have made of its type so far.

Node(name, text) ==
    [name |-> name, text |-> text, properties |-> PropertySignatures(text)]

RECURSIVE ReplaceEach(_, _)
ReplaceEach(source, texts) ==
    IF texts = <<>> THEN source
    ELSE ReplaceEach(Replace(source, Head(texts)), Tail(texts))

Texts(nodes) == [k \in 1..Len(nodes) |-> nodes[k].text]

\* a variant that looks only at a declaration's own properties, as a filter on
\* getProperties() would: C1 must tell it from findAuxDecls
findAuxDeclsOwn(node) ==
    SelectSeq(node.properties,
              LAMBDA n : n.depth = 1 /\ StartsWith(n.name, DELEGATE_AUX_RELATION_PREFIX))

findAuxDecls(node) ==
    SelectSeq(node.properties,
              LAMBDA n : StartsWith(n.name, DELEGATE_AUX_RELATION_PREFIX))

\* getFirstDescendant(PropertySignature named name), <<>> when there is none
findNamedProperty(typeAlias, name) ==
    Find(typeAlias.properties, LAMBDA d : d.name = name)

removeAuxFieldsFromTypeAlias(typeAlias, source) ==
    ReplaceEach(source, Texts(findAuxDecls(typeAlias)))

\* name, from index j on, matches (Unchecked)?(Create|Update).*Input
CreateUpdateInputAt(name, j) ==
    \E k \in {j} \cup (IF j <= Len(name) /\ name[j] = "Unchecked" THEN {j + 1} ELSE {}) :
        /\ k <= Len(name)
        /\ name[k] \in {"Create", "Update"}
        /\ \E l \in (k+1)..Len(name) : name[l] = "Input"

OccursAt(name, i, word) ==
    /\ i + Len(word) - 1 <= Len(name)
    /\ SubSeq(name, i, i + Len(word) - 1) = word

\* typeName.match(/(N1|..|Nk)(Unchecked)?(Create|Update).*Input/)[1]: at the
\* leftmost place any alternative matches, the first alternative that does;
\* <<name>>, or <<>> when there is no match
MatchConcreteInput(typeName, names) ==
    LET alts == IF names = <<>> THEN <<(<<>>)>> ELSE names
        ok(i, k) == OccursAt(typeName, i, alts[k])
                       /\ CreateUpdateInputAt(typeName, i + Len(alts[k]))
        places == {i \in 1..(Len(typeName) + 1) : \E k \in 1..Len(alts) : ok(i, k)}
    IN IF places = {} THEN <<>>
       ELSE <<alts[Min({k \in 1..Len(alts) : ok(Min(places), k)})]>>

removeDiscriminatorFromConcreteInput(m, typeAlias, delegateInfo, source) ==
    LET concreteModelNames ==
            Flatten([i \in 1..Len(delegateInfo) |->
                [j \in 1..Len(delegateInfo[i].concretes) |-> delegateInfo[i].concretes[j].name]])
        match == MatchConcreteInput(typeAlias.name, concreteModelNames)
        record == IF match = <<>> THEN <<>>
                  ELSE Find(delegateInfo, LAMBDA r : Some(r.concretes, LAMBDA c : c.name = match[1]))
    IN IF record = <<>> THEN source
       ELSE LET discriminators ==
                    getDiscriminatorFieldsRecursively(m, record[1].delegate, <<>>, 1)
            IN IF discriminators = StackOverflow THEN Thrown
               ELSE ReplaceEach(source,
                        Flatten([k \in 1..Len(discriminators) |->
                                    Texts(findNamedProperty(typeAlias, discriminators[k]))]))

\* new RegExp(`\\${names.join('|')}(Unchecked)?(Create|Update).*Input`).test(typeName):
\* the alternatives are split at every '|', so with two names or more the
\* first name (behind the backslash) and the middle names stand alone and only
\* the last name carries the (Unchecked)?(Create|Update).*Input part.  The
\* backslash escapes the first letter of the first name; for the names of this
\* model it is an identity escape.
TestDelegateInput(typeName, names) ==
    LET n == Len(names)
    IN \E i \in 1..Len(typeName) :
           \/ \E k \in 1..(n - 1) : OccursAt(typeName, i, names[k])
           \/ /\ OccursAt(typeName, i, names[n])
              /\ CreateUpdateInputAt(typeName, i + Len(names[n]))

removeCreateFromDelegateInput(typeAlias, delegateModels, source) ==
    LET delegateModelNames == [i \in 1..Len(delegateModels) |-> delegateModels[i].delegate.name]
    IN IF TestDelegateInput(typeAlias.name, delegateModelNames)
       THEN ReplaceEach(source,
                Texts(SelectSeq(typeAlias.properties, LAMBDA p :
                    p.name \in {<<"create">>, <<"connectOrCreate">>, <<"upsert">>})))
       ELSE source

\* name.match(/(.+)(Create|Update)Without<Prefix>_(.+)Input/)[3], both groups
\* greedy: <<nameTuple>>, or <<>> when there is no match
MatchNestedMutationInput(name) ==
    LET prefix == upperCaseFirst(DELEGATE_AUX_RELATION_PREFIX)
        heads == {p \in 2..Len(name) :
                     /\ name[p] \in {"Create", "Update"}
                     /\ OccursAt(name, p + 1, <<"Without">> \o prefix \o <<"_">>)
                     /\ \E q \in (p + Len(prefix) + 4)..Len(name) : name[q] = "Input"}
    IN IF heads = {} THEN <<>>
       ELSE LET p == Max(heads)
                from == p + Len(prefix) + 3
                q == Max({q \in (from + 1)..Len(name) : name[q] = "Input"})
            IN <<SubSeq(name, from, q - 1)>>

\* nameTuple.split('_')
RECURSIVE Split(_)
Split(s) ==
    LET i == IndexOf(s, <<"_">>)
    IN IF i = 0 THEN <<s>>
       ELSE <<SubSeq(s, 1, i - 1)>> \o Split(SubSeq(s, i + 1, Len(s)))

\* destructuring: the k-th element, <<>> standing for undefined
ElementAt(list, k) == IF k <= Len(list) THEN list[k] ELSE <<>>

removeDelegateFieldsFromNestedMutationInput(m, typeAlias, source) ==
    LET match == MatchNestedMutationInput(typeAlias.name)
    IN IF match = <<>> THEN source
       ELSE LET parts == Split(match[1])
                modelName == ElementAt(parts, 1)
                relationFieldName == ElementAt(parts, 2)
                source1 == ReplaceEach(source, Texts(findNamedProperty(typeAlias, relationFieldName)))
                relationModel == Find(m.declarations,
                                      LAMBDA d : isDataModel(d) /\ d.name = modelName)
                relationField == IF relationModel = <<>> THEN <<>>
                                 ELSE Find(relationModel[1].fields,
                                           LAMBDA f : f.name = relationFieldName)
                fkFields == IF relationField = <<>> \/ relationField[1].relation = "none"
                            THEN <<>> ELSE relationField[1].fkFields
            IN ReplaceEach(source1,
                   Flatten([k \in 1..Len(fkFields) |->
                               Texts(findNamedProperty(typeAlias, fkFields[k]))]))

\* `(${concretes.map(...).join(' | ')})`: the union a delegate's payload becomes
PayloadUnion(concretes, discriminator) ==
    Flatten([k \in 1..Len(concretes) |->
        (IF k = 1 THEN <<>> ELSE <<" | ">>)
        \o <<"(", "$">> \o concretes[k].name \o <<"Payload", "<ExtArgs>", " & { scalars: { ">>
        \o discriminator \o <<": '">> \o concretes[k].name \o <<"' } })">>])

fixDelegatePayloadType(typeAlias, delegateInfo, source) ==
    LET payloadRecord == Find(delegateInfo, LAMBDA r :
                              <<"$">> \o r.delegate.name \o <<"Payload">> = typeAlias.name)
    IN IF payloadRecord = <<>> THEN source
       ELSE LET discriminatorDecl == getDiscriminatorField(payloadRecord[1].delegate)
            IN IF discriminatorDecl = <<>> THEN source
               ELSE PayloadUnion(payloadRecord[1].concretes, discriminatorDecl[1])

\* the new type of a type alias, or Thrown when the walk up the supertypes
\* overruns the stack
transformTypeAlias(m, typeAlias, delegateInfo) ==
    LET s1 == removeAuxFieldsFromTypeAlias(typeAlias, typeAlias.text)
        s2 == removeDiscriminatorFromConcreteInput(m, typeAlias, delegateInfo, s1)
    IN IF s2 = Thrown THEN Thrown
       ELSE LET s3 == removeCreateFromDelegateInput(typeAlias, delegateInfo, s2)
                s4 == removeDelegateFieldsFromNestedMutationInput(m, typeAlias, s3)
            IN fixDelegatePayloadType(typeAlias, delegateInfo, s4)

\* the new type of a variable statement's declaration
transformVariableStatement(variable) ==
    ReplaceEach(variable.text, Texts(findAuxDecls(variable)))

\* a list of members printed as the body of a declaration
PrintMembers(members) ==
    <<OPEN>> \o Flatten([k \in 1..Len(members) |-> <<NL>> \o members[k].text]) \o <<NL, CLOSE>>

\* a variant that drops create, createMany and upsert from every interface:
\* C4 must tell it from transformInterface
transformInterfaceEverywhere(iface, delegateInfo) ==
    LET own == SelectSeq(Members(iface.text), LAMBDA x : x.depth = 1)
        properties == SelectSeq(own, LAMBDA p :
            p.kind = "PropertySignature" /\ ~StartsWith(p.name, DELEGATE_AUX_RELATION_PREFIX))
        methods == SelectSeq(own, LAMBDA x :
            /\ x.kind = "MethodSignature"
            /\ ~StartsWith(x.name, DELEGATE_AUX_RELATION_PREFIX)
            /\ x.name \notin {<<"create">>, <<"createMany">>, <<"upsert">>})
    IN PrintMembers(properties \o methods)

\* the new body of an interface: getStructure() lists the interface's own
\* properties and methods; the structure is printed properties first
transformInterface(iface, delegateInfo) ==
    LET own == SelectSeq(Members(iface.text), LAMBDA x : x.depth = 1)
        properties == SelectSeq(own, LAMBDA p :
            p.kind = "PropertySignature" /\ ~StartsWith(p.name, DELEGATE_AUX_RELATION_PREFIX))
        methods0 == SelectSeq(own, LAMBDA x :
            x.kind = "MethodSignature" /\ ~StartsWith(x.name, DELEGATE_AUX_RELATION_PREFIX))
        methods == IF Some(delegateInfo, LAMBDA r : r.delegate.name \o <<"Delegate">> = iface.name)
                   THEN SelectSeq(methods0, LAMBDA x :
                            x.name \notin {<<"create">>, <<"createMany">>, <<"upsert">>})
                   ELSE methods0
    IN PrintMembers(properties \o methods)

\* --------------------------------------- the declaration documents (.d.ts)
\* A document is the list of its top-level declarations other than the
\* `Prisma` namespace, and the list of the declarations inside that namespace.
\* A declaration is its syntax kind, its name, and its body as text: the type
\* of a type alias or of a variable, the members of an interface or a class.

Decl(kind, name, body) == [kind |-> kind, name |-> name, body |-> body]

OfKind(decls, kind) == SelectSeq(decls, LAMBDA d : d.kind = kind)

\* no document: a rewrite threw before the document was complete
ThrownDocument == [top |-> <<>>, prisma |-> <<Decl("Thrown", Thrown, Thrown)>>]

\* a file that does not exist
Absent == [top |-> <<>>, prisma |-> <<Decl("Absent", <<>>, <<>>)>>]

transformPrismaModule(m, moduleBlock, delegateInfo) ==
    LET variables == OfKind(moduleBlock, "VariableStatement")
        interfaces == OfKind(moduleBlock, "InterfaceDeclaration")
        typeAliases == OfKind(moduleBlock, "TypeAliasDeclaration")
    IN OfKind(moduleBlock, "ImportEqualsDeclaration")
       \o OfKind(moduleBlock, "ClassDeclaration")
       \o OfKind(moduleBlock, "FunctionDeclaration")
       \o OfKind(moduleBlock, "ModuleDeclaration")
       \o [k \in 1..Len(variables) |->
              Decl(variables[k].kind, variables[k].name,
                   transformVariableStatement(Node(variables[k].name, variables[k].body)))]
       \o [k \in 1..Len(interfaces) |->
              Decl(interfaces[k].kind, interfaces[k].name,
                   transformInterface(Node(interfaces[k].name, interfaces[k].body), delegateInfo))]
       \o [k \in 1..Len(typeAliases) |->
              Decl(typeAliases[k].kind, typeAliases[k].name,
                   transformTypeAlias(m, Node(typeAliases[k].name, typeAliases[k].body),
                                      delegateInfo))]

transformDelegate(m, sf, delegateInfo) ==
    LET newPrismaModule == transformPrismaModule(m, sf.prisma, delegateInfo)
    IN IF Some(newPrismaModule, LAMBDA d : d.body = Thrown) THEN ThrownDocument
       ELSE [top |-> OfKind(sf.top, "ImportDeclaration")
                     \o OfKind(sf.top, "ImportEqualsDeclaration")
                     \o OfKind(sf.top, "ExportAssignment")
                     \o OfKind(sf.top, "TypeAliasDeclaration")
                     \o OfKind(sf.top, "ClassDeclaration")
                     \o OfKind(sf.top, "VariableStatement")
                     \o OfKind(sf.top, "ModuleDeclaration"),
             prisma |-> newPrismaModule]

\* transformTypeAlias up to, and without, fixDelegatePayloadType: the rewrites
\* that only take properties away
subtractiveTypeAlias(m, typeAlias, delegateInfo) ==
    LET s1 == removeAuxFieldsFromTypeAlias(typeAlias, typeAlias.text)
        s2 == removeDiscriminatorFromConcreteInput(m, typeAlias, delegateInfo, s1)
    IN IF s2 = Thrown THEN Thrown
       ELSE removeDelegateFieldsFromNestedMutationInput(
                m, typeAlias, removeCreateFromDelegateInput(typeAlias, delegateInfo, s2))

\* transformDelegate with subtractiveTypeAlias for the type aliases
subtractiveRewrites(m, doc, delegateInfo) ==
    LET whole == transformDelegate(m, doc, delegateInfo)
    IN IF whole = ThrownDocument THEN ThrownDocument
       ELSE [top |-> whole.top,
             prisma |-> [k \in 1..Len(whole.prisma) |->
                 IF whole.prisma[k].kind # "TypeAliasDeclaration" THEN whole.prisma[k]
                 ELSE Decl(whole.prisma[k].kind, whole.prisma[k].name,
                           subtractiveTypeAlias(
                               m,
                               Node(whole.prisma[k].name,
                                    Find(doc.prisma, LAMBDA d :
                                        d.kind = "TypeAliasDeclaration"
                                            /\ d.name = whole.prisma[k].name)[1].body),
                               delegateInfo))]]

\* the document processClientTypes saves as index-fixed.d.ts
FixedClientTypes(m, sf) ==
    LET delegateInfo == BuildDelegateInfo(m)
    IN IF Len(delegateInfo) > 0 THEN transformDelegate(m, sf, delegateInfo) ELSE sf

\* ------------------------------------------------------------- the inputs

\* the most data models a schema declares
MaxModels == 3

Asset == <<"Asset">>
Video == <<"Video">>
MyVideo == <<"My", "Video">>
Media == <<"Media">>
User == <<"User">>

\* the names of the data models, in declaration order
ModelNames == <<Asset, Video, MyVideo, Media, User>>

\* the field a model's @@delegate attribute names
DiscriminatorOf(name) == IF name \in {Asset, MyVideo} THEN <<"kind">> ELSE <<"type">>

Field(name, relation, fkFields, auth) ==
    [name |-> name, relation |-> relation, fkFields |-> fkFields, defaultWithAuth |-> auth]

\* every model has an id, its discriminator, and two relations with their
\* foreign keys, one of them with an underscore in its name
FieldsOf(name, auth) ==
    <<Field(<<"id">>, "none", <<>>, auth),
      Field(DiscriminatorOf(name), "none", <<>>, FALSE),
      Field(<<"owner">>, "fields", <<(<<"ownerId">>)>>, FALSE),
      Field(<<"ownerId">>, "none", <<>>, FALSE),
      Field(<<"my", "_", "owner">>, "fields", <<(<<"my", "_", "ownerId">>)>>, FALSE),
      Field(<<"my", "_", "ownerId">>, "none", <<>>, FALSE)>>

\* a schema of n models: markers[i] is the @@delegate attribute of the i-th
\* model, supers[i] the index of the model it extends (0: none), auth whether
\* some @default uses auth()
Schema(n, markers, supers, auth) ==
    [declarations |-> [i \in 1..n |->
        [isDataModel |-> TRUE,
         name |-> ModelNames[i],
         delegate |-> markers[i],
         disc |-> DiscriminatorOf(ModelNames[i]),
         superTypes |-> IF supers[i] = 0 THEN <<>> ELSE <<ModelNames[supers[i]]>>,
         fields |-> FieldsOf(ModelNames[i], auth /\ i = 1)]]]

\* the supertype references form no cycle
RECURSIVE ReachesRoot(_, _, _)
ReachesRoot(supers, i, fuel) ==
    \/ supers[i] = 0
    \/ fuel > 0 /\ ReachesRoot(supers, supers[i], fuel - 1)

Acyclic(n, supers) == \A i \in 1..n : ReachesRoot(supers, i, n)

\* the schemas: auth() in a default is varied where the run depends on it
Schemas ==
    {s \in UNION {{Schema(n, markers, supers, auth) :
                      markers \in [1..n -> {"none", "field", "unresolved"}],
                      supers \in {f \in [1..n -> 0..n] : Acyclic(n, f)},
                      auth \in BOOLEAN} : n \in 1..MaxModels} :
        hasAuthInDefault(s) => ~hasDelegateModel(s)}

\* the most data models a malformed schema declares
MaxMalformedModels == 2

\* the malformed schemas: some supertype references form a cycle
MalformedSchemas ==
    {s \in UNION {{Schema(n, markers, supers, auth) :
                      markers \in [1..n -> {"none", "field", "unresolved"}],
                      supers \in {f \in [1..n -> 0..n] : ~Acyclic(n, f)},
                      auth \in BOOLEAN} : n \in 1..MaxMalformedModels} :
        hasAuthInDefault(s) => ~hasDelegateModel(s)}

P(name, tail) == name \o <<tail>>

Lines(members) == Flatten([k \in 1..Len(members) |-> <<NL>> \o members[k]])

\* a property whose type is a type literal
Nested(name, members) == name \o <<NOPEN>> \o Lines(members) \o <<NL, CLOSE>>

\* a type literal, an interface body, a class body
Literal(members) == <<OPEN>> \o Lines(members) \o <<NL, CLOSE>>

AuxVideo == <<"delegate_aux", "_video">>
AuxAsset == <<"delegate_aux", "_asset">>

\* the bodies the generated type aliases and variables have
BodyPlain ==
    Literal(<<P(<<"id">>, "?: string"), P(<<"kind">>, ": string"), P(<<"type">>, ": string"),
              P(<<"create">>, "?: X"), P(<<"connectOrCreate">>, "?: X"), P(<<"upsert">>, "?: X"),
              P(<<"owner">>, ": X"), P(<<"ownerId">>, ": string"),
              P(<<"my", "_", "owner">>, ": X"), P(<<"my", "_", "ownerId">>, ": string")>>)

BodyAux ==
    Literal(<<P(<<"id">>, "?: string"), P(AuxVideo, "?: X"), P(<<"kind">>, ": string"),
              Nested(<<"data">>, <<P(AuxAsset, "?: X"), P(<<"create">>, "?: X")>>)>>)

\* names that end in another property's name: mimekind before kind,
\* coownerId before ownerId, x_delegate_aux_video before delegate_aux_video
BodyClash ==
    Literal(<<P(<<"mime", "kind">>, ": string"), P(<<"kind">>, ": string"),
              P(<<"co", "ownerId">>, ": string"), P(<<"owner">>, ": X"),
              P(<<"ownerId">>, ": string"),
              P(<<"x_">> \o AuxVideo, "?: X"), P(AuxVideo, "?: X")>>)

BodyBare == Literal(<<P(<<"id">>, "?: string")>>)

Bodies == {BodyPlain, BodyAux, BodyClash, BodyBare}

InterfaceBody ==
    Literal(<<P(<<"fields">>, ": X"), P(AuxVideo, "?: X"),
              Nested(<<"meta">>, <<P(AuxAsset, "?: X")>>),
              P(<<"findMany">>, "(): R"), P(<<"create">>, "(): R"),
              P(<<"createMany">>, "(): R"), P(<<"upsert">>, "(): R"),
              P(AuxAsset, "(): R")>>)

ClassBody == Literal(<<P(<<"asset">>, ": X"), P(AuxVideo, "?: X")>>)

\* the declarations outside the Prisma namespace
TopLevel ==
    <<Decl("ImportDeclaration", <<"runtime">>, <<>>),
      Decl("TypeAliasDeclaration", Asset, BodyAux),
      Decl("InterfaceDeclaration", <<"Options">>, InterfaceBody),
      Decl("ClassDeclaration", <<"PrismaClient">>, ClassBody),
      Decl("ModuleDeclaration", <<"$", "Enums">>, <<>>),
      Decl("VariableStatement", <<"Role">>, BodyBare)>>

\* the declarations of the Prisma namespace that the generator writes for the
\* model named x, with the given body for type aliases and variables
PrismaModule(x, body) ==
    <<Decl("TypeAliasDeclaration", <<"$">> \o x \o <<"Payload">>, body),
      Decl("ImportEqualsDeclaration", <<"DMMF">>, <<>>),
      Decl("InterfaceDeclaration", x \o <<"Delegate">>, InterfaceBody),
      Decl("TypeAliasDeclaration", x \o <<"Where", "Input">>, body),
      Decl("ClassDeclaration", <<"Decimal">>, ClassBody),
      Decl("TypeAliasDeclaration", x \o <<"Create", "Input">>, body),
      Decl("VariableStatement", x \o <<"ScalarFieldEnum">>, body),
      Decl("TypeAliasDeclaration",
           x \o <<"Unchecked", "Update", "Without", "Owner", "Input">>, body),
      Decl("FunctionDeclaration", <<"validator">>, <<>>),
      Decl("InterfaceDeclaration", x \o <<"FieldRefs">>, InterfaceBody),
      Decl("TypeAliasDeclaration",
           User \o <<"Create", "Without", "Delegate_aux", "_">> \o x
                \o <<"_", "owner", "_">> \o Video \o <<"Input">>, body),
      Decl("TypeAliasDeclaration",
           User \o <<"Update", "Without", "Delegate_aux", "_">> \o x
                \o <<"_", "my", "_", "owner", "_">> \o Video \o <<"Input">>, body),
      Decl("EnumDeclaration", <<"Mode">>, <<>>)>>

\* the index.d.ts files `prisma generate` may write
Documents ==
    {[top |-> TopLevel, prisma |-> PrismaModule(ModelNames[i], body)] :
        i \in 1..(MaxModels + 1), body \in Bodies}

\* ------------------------------------------------------- the run of generate()

VARIABLES
    model,      \* this.model: the schema
    pc,         \* where generate() stands
    execLog,    \* the outcome of each run of `prisma generate` so far
    sf,         \* .logical-prisma-client/index.d.ts
    sfNew,      \* .logical-prisma-client/index-fixed.d.ts
    modelsDts,  \* models.d.ts: what it re-exports
    error       \* what generate() threw

vars == <<model, pc, execLog, sf, sfNew, modelsDts, error>>

Init ==
    /\ model \in Schemas
    /\ pc = "generate"
    /\ execLog = <<>>
    /\ sf = Absent
    /\ sfNew = Absent
    /\ modelsDts = "absent"
    /\ error = "none"

\* generate(), no logical client needed: models.d.ts re-exports the prisma client
ReexportPrismaClient ==
    /\ pc = "generate"
    /\ ~needsLogicalClient(model)
    /\ modelsDts' = "prismaImport"
    /\ pc' = "enhance"
    /\ UNCHANGED <<model, execLog, sf, sfNew, error>>

\* generateLogicalPrisma(): the logical schema is written
GenerateLogicalSchema ==
    /\ pc = "generate"
    /\ needsLogicalClient(model)
    /\ pc' = "prisma generate"
    /\ UNCHANGED <<model, execLog, sf, sfNew, modelsDts, error>>

\* the first `prisma generate` (stdio ignored); when it fails the catch block
\* is entered
ExecGenerate ==
    /\ pc = "prisma generate"
    /\ \E ok \in BOOLEAN, written \in Documents :
        /\ execLog' = Append(execLog, ok)
        /\ sf' = IF ok THEN written ELSE sf
        /\ pc' = IF ok THEN "processClientTypes" ELSE "catch"
    /\ UNCHANGED <<model, sfNew, modelsDts, error>>

\* a variant of the catch block that swallows the second failure as well and
\* goes on: C8 must tell it from ExecGenerateAgain
ExecGenerateAgainNoThrow ==
    /\ pc = "catch"
    /\ \E ok \in BOOLEAN, written \in Documents :
        /\ execLog' = Append(execLog, ok)
        /\ sf' = IF ok THEN written ELSE sf
    /\ pc' = "reexport"
    /\ UNCHANGED <<model, sfNew, modelsDts, error>>

\* a variant of the catch block that throws only when the second run fails
\* too: C9 must tell it from ExecGenerateAgain
ExecGenerateAgainThrowOnSecond ==
    /\ pc = "catch"
    /\ \E ok \in BOOLEAN, written \in Documents :
        /\ execLog' = Append(execLog, ok)
        /\ sf' = IF ok THEN written ELSE sf
        /\ error' = IF ok THEN error ELSE "PluginError"
        /\ pc' = IF ok THEN "processClientTypes" ELSE "thrown"
    /\ UNCHANGED <<model, sfNew, modelsDts>>

\* the catch block: `prisma generate` again with its output on the console,
\* whatever it does swallowed, then the PluginError
ExecGenerateAgain ==
    /\ pc = "catch"
    /\ \E ok \in BOOLEAN, written \in Documents :
        /\ execLog' = Append(execLog, ok)
        /\ sf' = IF ok THEN written ELSE sf
    /\ error' = "PluginError"
    /\ pc' = "thrown"
    /\ UNCHANGED <<model, sfNew, modelsDts>>

\* processClientTypes(): index-fixed.d.ts is saved, unless a rewrite throws
ProcessClientTypes ==
    /\ pc = "processClientTypes"
    /\ LET fixed == FixedClientTypes(model, sf)
       IN IF fixed = ThrownDocument
          THEN /\ error' = "RangeError"
               /\ pc' = "thrown"
               /\ sfNew' = sfNew
          ELSE /\ sfNew' = fixed
               /\ pc' = "reexport"
               /\ error' = error
    /\ UNCHANGED <<model, execLog, sf, modelsDts>>

\* generate(), after generateLogicalPrisma(): models.d.ts re-exports index-fixed
ReexportLogicalClient ==
    /\ pc = "reexport"
    /\ modelsDts' = "./.logical-prisma-client/index-fixed"
    /\ pc' = "enhance"
    /\ UNCHANGED <<model, execLog, sf, sfNew, error>>

\* enhance.ts is created and generate() returns
SaveEnhance ==
    /\ pc = "enhance"
    /\ pc' = "done"
    /\ UNCHANGED <<model, execLog, sf, sfNew, modelsDts, error>>

Next ==
    \/ ReexportPrismaClient
    \/ GenerateLogicalSchema
    \/ ExecGenerate
    \/ ExecGenerateAgain
    \/ ProcessClientTypes
    \/ ReexportLogicalClient
    \/ SaveEnhance

Spec == Init /\ [][Next]_vars

\* generate() on a malformed schema
InitMalformed ==
    /\ model \in MalformedSchemas
    /\ pc = "generate"
    /\ execLog = <<>>
    /\ sf = Absent
    /\ sfNew = Absent
    /\ modelsDts = "absent"
    /\ error = "none"

SpecMalformed == InitMalformed /\ [][Next]_vars

\* ------------------------------------------------------------ the claims

\* index-fixed.d.ts has been written by transformDelegate
Transformed == sfNew # Absent /\ Len(BuildDelegateInfo(model)) > 0

\* the declaration of the output's Prisma namespace an input declaration became
Output(d) == Find(sfNew.prisma, LAMBDA o : o.kind = d.kind /\ o.name = d.name)

IsAux(name) == StartsWith(name, DELEGATE_AUX_RELATION_PREFIX)

AllDecls(doc) == {doc.top[k] : k \in 1..Len(doc.top)} \cup {doc.prisma[k] : k \in 1..Len(doc.prisma)}

PrismaDecls(doc, kinds) == {doc.prisma[k] : k \in {j \in 1..Len(doc.prisma) : doc.prisma[j].kind \in kinds}}

\* the names of the properties a type has at any depth
PropertyNames(text) ==
    LET properties == PropertySignatures(text)
    IN {properties[k].name : k \in 1..Len(properties)}

\* the prefix stands in the text only where a property's or a method's name
\* begins, and no member with the prefix lies inside another one
AuxOnlyLeadsNames(text) ==
    /\ \A i \in 1..Len(text) :
           text[i] = DELEGATE_AUX_RELATION_PREFIX[1] => (i = 1 \/ ~IsFrag(text[i - 1]))
    /\ LET members == Members(text)
       IN \A k \in 1..Len(members) :
              IsAux(members[k].name) =>
                  LET inner == Members(members[k].text)
                  IN \A j \in 2..Len(inner) : ~IsAux(inner[j].name)

C2_IdentityWithoutDelegateEntity ==
    (sfNew # Absent /\ ~hasDelegateModel(model)) => sfNew = sf

\* the models that list the model named base among their supertypes, in
\* declaration order
DirectSubtypes(base) ==
    SelectSeq(model.declarations, LAMBDA d : \E k \in 1..Len(d.superTypes) : d.superTypes[k] = base)

\* `($SPayload<ExtArgs> & { scalars: { d: 'S' } })`
UnionMember(subtype, d) ==
    <<"(", "$">> \o subtype \o <<"Payload", "<ExtArgs>", " & { scalars: { ">> \o d
        \o <<": '">> \o subtype \o <<"' } })">>

RECURSIVE UnionOf(_, _)
UnionOf(subtypes, d) ==
    IF subtypes = <<>> THEN <<>>
    ELSE IF Len(subtypes) = 1 THEN UnionMember(subtypes[1].name, d)
    ELSE UnionMember(subtypes[1].name, d) \o <<" | ">> \o UnionOf(Tail(subtypes), d)

Marked(how) ==
    {model.declarations[k] : k \in {j \in 1..Len(model.declarations) :
                                       model.declarations[j].delegate \in how}}

PayloadAliases(doc, d) ==
    {a \in PrismaDecls(doc, {"TypeAliasDeclaration"}) : a.name = <<"$">> \o d.name \o <<"Payload">>}

\* C3: for every delegate D whose discriminator d resolves, with direct
\* subtypes S1..Sn in declaration order, the output type of `$DPayload` is
\* exactly the union of the n members `$SiPayload & { scalars: { d: 'Si' } }`,
\* once each, in that order, and of no other member.
C3_PayloadIsUnionOfDirectSubtypes ==
    Transformed =>
        \A d \in Marked({"field"}) : \A a \in PayloadAliases(sfNew, d) :
            a.body = UnionOf(DirectSubtypes(d.name), d.disc)

\* C3's case: the payload of a delegate with two direct subtypes was rewritten
C3_Witness ==
    /\ Transformed
    /\ \E d \in Marked({"field"}) :
           /\ Len(DirectSubtypes(d.name)) = 2
           /\ PayloadAliases(sf, d) # {}
           /\ PayloadAliases(sfNew, d) # {}

OwnMethods(text) ==
    LET methods == SelectSeq(Members(text), LAMBDA x : x.depth = 1 /\ x.kind = "MethodSignature")
    IN [k \in 1..Len(methods) |-> methods[k].name]

CreateMethods == {<<"create">>, <<"createMany">>, <<"upsert">>}

\* C4: for every delegate E of the index the output interface `EDelegate` has
\* no method create, createMany or upsert and keeps every other method that is
\* no aux method; any other interface keeps its create, createMany and upsert.
C4_CapabilityStripping ==
    Transformed =>
        \A i \in PrismaDecls(sf, {"InterfaceDeclaration"}) :
            /\ Output(i) # <<>>
            /\ OwnMethods(Output(i)[1].body) =
                   SelectSeq(OwnMethods(i.body), LAMBDA name :
                       /\ ~IsAux(name)
                       /\ (\E e \in Marked({"field", "unresolved"}) :
                               i.name = e.name \o <<"Delegate">>) => name \notin CreateMethods)

\* C4's case: the interface of a delegate and an interface of another name,
\* both with create, createMany and upsert, were rewritten
C4_Witness ==
    /\ Transformed
    /\ \E i, j \in PrismaDecls(sf, {"InterfaceDeclaration"}) :
           /\ \E e \in Marked({"field", "unresolved"}) : i.name = e.name \o <<"Delegate">>
           /\ \A e \in Marked({"field", "unresolved"}) : j.name # e.name \o <<"Delegate">>
           /\ \A x \in {i, j} :
                  LET methods == OwnMethods(x.body)
                  IN \A name \in CreateMethods : \E k \in 1..Len(methods) : methods[k] = name

TypeAliases(doc) == PrismaDecls(doc, {"TypeAliasDeclaration"})

CreateProperties == {<<"create">>, <<"connectOrCreate">>, <<"upsert">>}

\* name is `<entity>(Unchecked)?(Create|Update)...Input`
IsCreateUpdateInputOf(name, entity) ==
    /\ StartsWith(name, entity)
    /\ CreateUpdateInputAt(name, Len(entity) + 1)
    /\ name[Len(name)] = "Input"

\* C5: with one or more delegates in the index, in any order,
\* removeCreateFromDelegateInput removes create, connectOrCreate and upsert
\* from a type alias if and only if the alias is named
\* `<Delegate>(Unchecked)?(Create|Update)...Input` for some delegate of the
\* index; any other alias keeps its type as it is.
C5_ExactlyTheDelegateInputs ==
    Transformed =>
        \A a \in TypeAliases(sf) :
            LET out == removeCreateFromDelegateInput(Node(a.name, a.body),
                                                     BuildDelegateInfo(model), a.body)
            IN IF \E d \in Marked({"field", "unresolved"}) : IsCreateUpdateInputOf(a.name, d.name)
               THEN PropertyNames(out) = PropertyNames(a.body) \ CreateProperties
               ELSE out = a.body

\* the models on the supertype chain of the model named name
RECURSIVE Ancestors(_, _)
Ancestors(name, fuel) ==
    LET d == Ref(model, name)
    IN IF fuel = 0 \/ d = <<>> THEN {}
       ELSE UNION {{Ref(model, d[1].superTypes[k])[1]} \cup Ancestors(d[1].superTypes[k], fuel - 1) :
                      k \in {j \in 1..Len(d[1].superTypes) : Ref(model, d[1].superTypes[j]) # <<>>}}

\* the discriminators of the delegates above the model named name
AncestorDiscriminators(name) ==
    {a.disc : a \in {x \in Ancestors(name, MaxModels) : x.delegate = "field"}}

\* C6: for every entity C and every delegate A on C's supertype chain, the
\* type removeDiscriminatorFromConcreteInput returns for an alias named
\* `C(Unchecked)?(Create|Update)...Input` has no property named after A's
\* discriminator and has every other property of the alias.
C6_NoAncestorDiscriminator ==
    Transformed =>
        \A c \in Marked({"none", "field", "unresolved"}) : \A a \in TypeAliases(sf) :
            (IsCreateUpdateInputOf(a.name, c.name) /\ AncestorDiscriminators(c.name) # {}) =>
                PropertyNames(removeDiscriminatorFromConcreteInput(
                                  model, Node(a.name, a.body), BuildDelegateInfo(model), a.body))
                    = PropertyNames(a.body) \ AncestorDiscriminators(c.name)

\* name is `...(Create|Update)Without<AuxPrefix>_<entity>_<field>_<Concrete>Input`
IsNestedMutationInputOf(name, entity, field) ==
    LET middle == <<"Without">> \o upperCaseFirst(DELEGATE_AUX_RELATION_PREFIX) \o <<"_">>
                      \o entity \o <<"_">> \o field \o <<"_">>
    IN /\ name[Len(name)] = "Input"
       /\ \E p \in 2..Len(name) :
              /\ name[p] \in {"Create", "Update"}
              /\ OccursAt(name, p + 1, middle)
              /\ p + Len(middle) + 1 < Len(name)
              /\ \A q \in (p + Len(middle) + 1)..(Len(name) - 1) : name[q] # "_"

\* C7: for every alias named
\* `...(Create|Update)Without<AuxPrefix>_<Model>_<RelationField>_<Concrete>Input`
\* the type removeDelegateFieldsFromNestedMutationInput returns has neither the
\* property named after the relation field nor a property named after a
\* foreign key of its @relation attribute, whether or not the names contain
\* an underscore.
C7_NoRelationNorForeignKeys ==
    Transformed =>
        \A e \in Marked({"none", "field", "unresolved"}) : \A a \in TypeAliases(sf) :
            \A i \in 1..Len(e.fields) :
                (e.fields[i].relation = "fields"
                    /\ IsNestedMutationInputOf(a.name, e.name, e.fields[i].name)) =>
                    PropertyNames(removeDelegateFieldsFromNestedMutationInput(
                                      model, Node(a.name, a.body), a.body))
                        \cap ({e.fields[i].name}
                              \cup {e.fields[i].fkFields[k] : k \in 1..Len(e.fields[i].fkFields)})
                        = {}

\* C8: `prisma generate` runs once, and once more if and only if the first run
\* failed, never a third time; when both runs failed generate() has thrown
\* the PluginError and neither index-fixed.d.ts nor models.d.ts is written.
C8_RetryOnce ==
    /\ Len(execLog) <= 2
    /\ Len(execLog) = 2 => ~execLog[1]
    /\ execLog = <<FALSE>> => pc = "catch"
    /\ execLog = <<FALSE, FALSE>> =>
           /\ pc = "thrown" /\ error = "PluginError"
           /\ sfNew = Absent /\ modelsDts = "absent"

\* C8's case: both runs of `prisma generate` failed
C8_Witness == execLog = <<FALSE, FALSE>> /\ pc = "thrown"

\* C9 as claimed: the PluginError is thrown only when both runs failed; a
\* failed run followed by a successful one does not abort generate().
C9_FatalOnlyOnSecondFailure ==
    /\ error = "PluginError" => execLog = <<FALSE, FALSE>>
    /\ execLog = <<FALSE, TRUE>> => pc # "thrown"

\* C9 as amended: the PluginError is thrown whenever the first run failed,
\* whatever the second run does, and only then: after a failed first run
\* and a second run generate() has thrown, and index-fixed.d.ts and
\* models.d.ts stay unwritten; processClientTypes runs only after a first
\* run that succeeded.
C9_FatalOnFirstFailure ==
    /\ error = "PluginError" <=> (Len(execLog) = 2 /\ ~execLog[1])
    /\ (Len(execLog) = 2 /\ ~execLog[1]) =>
           pc = "thrown" /\ sfNew = Absent /\ modelsDts = "absent"
    /\ (pc \in {"processClientTypes", "reexport"} \/ sfNew # Absent) => execLog = <<TRUE>>

\* C9's case: the first run failed, the second succeeded, generate() threw
C9_Witness == execLog = <<FALSE, TRUE>> /\ error = "PluginError" /\ pc = "thrown"

\* C10: the type of `$DPayload` becomes the union if and only if D's
\* @@delegate resolves to a field; when it does not, the type stays what the
\* input had, less the aux fields, nothing is thrown, and the payloads of
\* the delegates that do resolve are still the unions.
C10_UnresolvedKeepsFlatRecord ==
    Transformed =>
        /\ error = "none"
        /\ \A d \in Marked({"field", "unresolved"}) : \A a \in PayloadAliases(sf, d) :
               /\ Output(a) # <<>>
               /\ Output(a)[1].body =
                      IF d.delegate = "field"
                      THEN UnionOf(DirectSubtypes(d.name), d.disc)
                      ELSE removeAuxFieldsFromTypeAlias(Node(a.name, a.body), a.body)

IndexFixed == "./.logical-prisma-client/index-fixed"

Categories ==
    {"ImportDeclaration", "ImportEqualsDeclaration", "ExportAssignment", "TypeAliasDeclaration",
     "ClassDeclaration", "VariableStatement", "FunctionDeclaration", "InterfaceDeclaration",
     "EnumDeclaration", "ModuleDeclaration"}

\* the categories the rewrites of the Prisma namespace work on
RewrittenCategories == {"TypeAliasDeclaration", "InterfaceDeclaration", "VariableStatement"}

\* C12: with a non-empty index, the declarations no rewrite is made for (all
\* the top-level ones, and in the Prisma namespace those that are neither
\* interface nor type alias nor variable) are in the output once each,
\* unchanged, those of one category in the order they had.
C12_UntouchedDeclarationsCopied ==
    Transformed =>
        /\ \A kind \in Categories : OfKind(sfNew.top, kind) = OfKind(sf.top, kind)
        /\ \A kind \in Categories \ RewrittenCategories :
               OfKind(sfNew.prisma, kind) = OfKind(sf.prisma, kind)

\* C13: the rewrites that only take members away (aux fields, create methods
\* of delegates, discriminators, create properties of delegate inputs,
\* delegate relations), run on a document they have already been run on, give
\* that document back, and nothing is thrown.
C13_SubtractiveRewritesIdempotent ==
    Transformed =>
        LET delegateInfo == BuildDelegateInfo(model)
            once == subtractiveRewrites(model, sf, delegateInfo)
        IN /\ once # ThrownDocument
           /\ subtractiveRewrites(model, once, delegateInfo) = once

\* C14: getDiscriminatorFieldsRecursively terminates on every schema, also
\* when the supertype references of delegates form a cycle: the walk started
\* at any delegate returns, and processClientTypes never ends in the error of
\* a stack that has overrun.
C14_DiscriminatorWalkTerminates ==
    /\ error # "RangeError"
    /\ pc = "processClientTypes" =>
           \A d \in Marked({"field", "unresolved"}) :
               getDiscriminatorFieldsRecursively(model, d, <<>>, 1) # StackOverflow

\* the marked models that some model extends, in declaration order
DelegateBases ==
    SelectSeq(model.declarations,
              LAMBDA d : d.delegate # "none" /\ DirectSubtypes(d.name) # <<>>)

\* C15: the index processClientTypes builds has one entry for each marked
\* model that has a direct subtype and no other entry, each entry lists the
\* models that extend its base, in declaration order, and that list is not
\* empty; a marked model without subtypes keeps create, createMany and upsert
\* in its `Delegate` interface and keeps its payload type, less the aux fields.
C15_IndexHoldsDelegateBasesOnly ==
    sfNew # Absent =>
        LET info == BuildDelegateInfo(model)
        IN /\ [k \in 1..Len(info) |-> info[k].delegate] = DelegateBases
           /\ \A k \in 1..Len(info) :
                  /\ info[k].concretes # <<>>
                  /\ info[k].concretes = DirectSubtypes(info[k].delegate.name)
           /\ \A d \in Marked({"field", "unresolved"}) :
                  DirectSubtypes(d.name) = <<>> =>
                      /\ \A i \in PrismaDecls(sf, {"InterfaceDeclaration"}) :
                             i.name = d.name \o <<"Delegate">> =>
                                 /\ Output(i) # <<>>
                                 /\ \A name \in CreateMethods :
                                        Some(OwnMethods(i.body), LAMBDA x : x = name)
                                            => Some(OwnMethods(Output(i)[1].body), LAMBDA x : x = name)
                      /\ \A a \in PayloadAliases(sf, d) :
                             /\ Output(a) # <<>>
                             /\ Output(a)[1].body =
                                    removeAuxFieldsFromTypeAlias(Node(a.name, a.body), a.body)

\* the models that are neither marked nor listed under a base of the index
Bystanders ==
    {x \in Marked({"none"}) :
        \A k \in 1..Len(BuildDelegateInfo(model)) :
            ~Some(BuildDelegateInfo(model)[k].concretes, LAMBDA c : c.name = x.name)}

\* C16: for a model X that is neither a delegate nor a subtype of one,
\* removeDiscriminatorFromConcreteInput returns the type of every alias
\* `X(Unchecked)?(Create|Update)...Input` as it was, also when X has a property
\* named like a discriminator and X's name contains the name of a subtype.
C16_BystanderInputsUnchanged ==
    Transformed =>
        \A x \in Bystanders : \A a \in TypeAliases(sf) :
            IsCreateUpdateInputOf(a.name, x.name) =>
                removeDiscriminatorFromConcreteInput(
                    model, Node(a.name, a.body), BuildDelegateInfo(model), a.body) = a.body

====
